---- MODULE Spec2Model ----
(***************************************************************************)
(* Model of SmartParkingSystem (src/parking,py.py): the slot table, the    *)
(* pricing table, the daily counters and the operations vehicle_entry,     *)
(* calculate_charges, vehicle_exit, display_status and daily_report.       *)
(*                                                                         *)
(* Units.  Timestamps are whole minutes (datetime.now() as read by the     *)
(* operation); money is whole paise/cents (the code rounds every charge to *)
(* 2 decimals, so amount_in_code = cents / 100).  revenue_today is a      *)
(* binary float in the code: the model keeps its value to 2 decimals       *)
(* (revenue_today, in cents) and, exactly, how far the float lies from     *)
(* that decimal (revenue_drift), which decides the digit printed for an    *)
(* average that falls halfway between two cents.                           *)
(*                                                                         *)
(* Return values.  What an operation returns is a function of the state it *)
(* is called in (vehicle_entry_returns, calculate_charges,                 *)
(* vehicle_exit_returns, StatusView, Report); the action of the same name  *)
(* is its effect on the fields.  A call that fails changes nothing.        *)
(***************************************************************************)
EXTENDS Integers, Sequences, FiniteSets, Bags

\* ---------------------------------------------------------------- bounds
NumSlots == 2
MaxVehicles == 3
MaxReports == 1

\* Wall-clock readings (minutes) the environment can produce: two readings
\* 2 h 04 min apart, so that a stay lasts 0 min, 124 min or, the clock set
\* back, -124 min.
Times == {0, 124}

\* Operator inputs: two plates, two priced classes and one unknown class.
\* (A bike that stayed 2 h 04 min pays 10.33 and a car 20.67: with two
\* vehicles counted the average of daily_report then falls exactly between
\* two cents, where the binary float of the code decides the last digit; and
\* 10.33 + 10.33 + 10.0 and 10.0 + 10.33 + 10.33 are different floats.)
VehicleNos == {"KA01", "KA02"}
VehicleTypes == {"bike", "car", "truck"}

\* The calls of vehicle_entry: KA01 is a bike, KA02 a car, and the operator
\* may also type a class the ledger does not know.
Arrivals == {<<"KA01", "bike">>, <<"KA02", "car">>, <<"KA02", "truck">>}
SlotInputs == 0 .. (NumSlots + 1)

\* ---------------------------------------------------------------- state
\* total_slots .. daily_records are the fields of SmartParkingSystem; `now` is
\* the reading of datetime.now().
\* History: `charged` is the bag of the charges of the successful
\* vehicle_exit calls (cents -> number of exits); `admitted[s]` is the record
\* the vehicle now parked in s was given by the vehicle_entry that admitted
\* it (None when s is free).
\* Callers (used when several callers share the ledger): `locking` tells
\* whether every operation runs under one lock around the ledger; `pc[c]` is
\* "idle" or the place caller c has reached inside an operation; `found[c]`
\* (vehicle_entry), `leaving[c]` (vehicle_exit, calculate_charges) and
\* `viewing[c]` (display_status, daily_report) are the locals it holds there.
VARIABLES total_slots, parking_slots, revenue_today, revenue_drift,
          vehicles_today, daily_records, now, charged, admitted, locking, pc,
          found, leaving, viewing

vars == <<total_slots, parking_slots, revenue_today, revenue_drift,
          vehicles_today, daily_records, now, charged, admitted, locking, pc,
          found, leaving, viewing>>

history == <<charged, admitted>>

callers == <<locking, pc, found, leaving, viewing>>

\* The fields of the object (everything an operation could mutate).
ledger == <<total_slots, parking_slots, revenue_today, revenue_drift,
            vehicles_today, daily_records>>

\* ---------------------------------------------------------------- data
\* self.pricing, amounts in rupees as written in the source.
pricing ==
    [bike  |-> [base |-> 10, hourly |-> 5],
     car   |-> [base |-> 20, hourly |-> 10],
     ev    |-> [base |-> 25, hourly |-> 12],
     heavy |-> [base |-> 50, hourly |-> 25]]

\* Python None stored in a slot.
None == [vehicle_no |-> "", type |-> "None", entry_time |-> 0]

\* Python None returned by find_free_slot.
NoSlot == 0

\* Python None in the place of a timestamp.
NoTime == 0 - 1

\* The base window of calculate_charges: `duration_hours <= 2`, in minutes.
BaseWindow == 120

\* ---------------------------------------------------------------- floats
\* The floats of the code are IEEE doubles (53-bit mantissa, every operation
\* rounded to the nearest double, halves to the even mantissa).  A double x
\* that stands for the decimal n / (100 v) is described by its drift: the
\* integer t with x = n / (100 v) + t * 2^-60 / (25 v).

Pow2(k) == 2 ^ k

\* 2^p modulo M, twenty factors of 2 at a time.
RECURSIVE Pow2Mod(_, _)
Pow2Mod(p, M) ==
    IF p <= 20
    THEN Pow2(p) % M
    ELSE ((Pow2(20) % M) * Pow2Mod(p - 20, M)) % M

\* v = 2^TwoPart(v) * OddPart(v).
RECURSIVE TwoPart(_)
TwoPart(v) == IF v % 2 = 0 THEN 1 + TwoPart(v \div 2) ELSE 0

OddPart(v) == v \div Pow2(TwoPart(v))

\* The binary exponent of n / d + (a drift t too small to matter unless n / d
\* is a power of two): the e with 2^e <= value < 2^(e+1).
RECURSIVE ExponentUp(_, _)
ExponentUp(n, d) == IF 2 * d <= n THEN 1 + ExponentUp(n, 2 * d) ELSE 0

RECURSIVE ExponentDown(_, _)
ExponentDown(n, d) == IF n < d THEN ExponentDown(2 * n, d) - 1 ELSE 0

Exponent(n, d, t) ==
    LET e == IF n >= d THEN ExponentUp(n, d) ELSE ExponentDown(n, d)
        power == IF e >= 0 THEN n = d * Pow2(e) ELSE n * Pow2(0 - e) = d
    IN  IF t < 0 /\ power THEN e - 1 ELSE e

\* The drift of the double nearest to n / (100 v) + t * 2^-60 / (25 v), for
\* n >= 0 and v > 0: what a float operation with that exact result returns
\* (c / 100 for a charge, revenue + charge, revenue / vehicles, seconds /
\* 3600).  In units of 2^-60 / (25 v) the exact result is n * 2^58 + t and
\* the doubles of its exponent e are the multiples of ulp = 25 v * 2^(e + 8).
FloatDrift(n, v, t) ==
    IF n = 0
    THEN 0
    ELSE LET e == Exponent(n, 100 * v, t)
             M == 25 * OddPart(v)
             shift == TwoPart(v) + e + 8
             ulp == M * Pow2(shift)
             below == (Pow2(shift) * (((n % M) * Pow2Mod(58 - shift, M)) % M)
                       + t) % ulp
             below2 == (Pow2(shift + 1)
                          * (((n % M) * Pow2Mod(57 - shift, M)) % M)
                        + t) % (2 * ulp)
         IN  IF 2 * below < ulp THEN t - below
             ELSE IF 2 * below > ulp THEN t - below + ulp
             ELSE IF below2 >= ulp THEN t - below + ulp
             ELSE t - below

\* The integer a float is printed or rounded to by ':.2f', ':.1f' and
\* round(x, 2), the float standing for num / den in the unit of the last
\* digit (den > 0): the nearest integer; when num / den is exactly halfway
\* between two integers the side the float lies on decides (drift > 0:
\* above, drift < 0: below), and a float that is exactly halfway goes to
\* the even neighbour.
RoundFloat(num, den, drift) ==
    LET q == num \div den
        r == num % den
    IN  IF 2 * r < den THEN q
        ELSE IF 2 * r > den THEN q + 1
        ELSE IF drift > 0 THEN q + 1
        ELSE IF drift < 0 THEN q
        ELSE IF q % 2 = 0 THEN q ELSE q + 1

\* duration_hours of display_status printed with ':.1f', in tenths of an
\* hour, for an elapsed time in minutes: the float is seconds / 3600, and
\* a negative elapsed time is the negated float of its magnitude.
RECURSIVE ElapsedTenths(_)
ElapsedTenths(minutes) ==
    IF minutes < 0
    THEN 0 - ElapsedTenths(0 - minutes)
    ELSE RoundFloat(minutes, 6,
                    IF minutes % 6 = 3 THEN FloatDrift(5 * minutes, 3, 0)
                    ELSE 0)

\* avg of daily_report printed with ':.2f', in cents: the float is
\* revenue_today / vehicles, revenue the cents and drift the drift of
\* revenue_today.
AveragePerVehicle(revenue, drift, vehicles) ==
    RoundFloat(revenue, vehicles,
               IF 2 * (revenue % vehicles) = vehicles
               THEN FloatDrift(revenue, vehicles, drift)
               ELSE 0)

\* The drift of revenue_today after `self.revenue_today += charges`: the
\* charge is the double nearest to its two decimals, and the sum is rounded
\* once more.
DriftAfterAdding(charges) ==
    FloatDrift(revenue_today + charges, 1,
               revenue_drift + FloatDrift(charges, 1, 0))

\* self.parking_slots.get(slot)
SlotGet(slot) ==
    IF slot \in DOMAIN parking_slots THEN parking_slots[slot] ELSE None

\* sum(1 for v in self.parking_slots.values() if v is not None)
OccupiedCount ==
    Cardinality({s \in DOMAIN parking_slots : parking_slots[s] # None})

RECURSIVE ScanFree(_)
ScanFree(slot) ==
    IF slot \notin DOMAIN parking_slots THEN NoSlot
    ELSE IF parking_slots[slot] = None THEN slot
    ELSE ScanFree(slot + 1)

\* Variant: the scan runs from the last slot down.
RECURSIVE ScanFreeDown(_)
ScanFreeDown(slot) ==
    IF slot \notin DOMAIN parking_slots THEN NoSlot
    ELSE IF parking_slots[slot] = None THEN slot
    ELSE ScanFreeDown(slot - 1)

find_free_slot_from_last == ScanFreeDown(total_slots)

\* find_free_slot: the dict is iterated in insertion order 1..total_slots.
find_free_slot == ScanFree(1)

\* Variant: no base window, the hourly rate applies from two hours on in
\* both directions.
Charges_prorated_always(type, duration) ==
    100 * pricing[type].base
    + RoundFloat((duration - BaseWindow) * pricing[type].hourly * 5, 3, 0)

\* Variant: the overage is charged on the whole duration.
Charges_whole_duration(type, duration) ==
    IF duration <= BaseWindow
    THEN 100 * pricing[type].base
    ELSE 100 * pricing[type].base
         + RoundFloat(duration * pricing[type].hourly * 5, 3, 0)

\* The charge of calculate_charges in cents, for a class and a duration in
\* minutes: round(base or base + (duration_hours - 2) * hourly, 2).
Charges(type, duration) ==
    IF duration <= BaseWindow
    THEN 100 * pricing[type].base
    ELSE 100 * pricing[type].base
         + RoundFloat((duration - BaseWindow) * pricing[type].hourly * 5, 3, 0)

\* The callers that may share one ledger.
Callers == {1, 2}

\* What a caller holds when it is not inside vehicle_entry: the slot of the
\* scan of find_free_slot, the arguments and the local entry_time.
NoArrival ==
    [slot |-> NoSlot, vehicle_no |-> "", type |-> "None",
     entry_time |-> NoTime]

\* What a caller holds when it is not inside vehicle_exit or
\* calculate_charges: the locals slot and vehicle_data of vehicle_exit, the
\* vehicle_data of calculate_charges (charged_data), charges and exit_time.
NoDeparture ==
    [slot |-> NoSlot, vehicle_data |-> None, charged_data |-> None,
     charges |-> 0, exit_time |-> NoTime]

\* What a caller holds when it is not inside display_status or daily_report:
\* the position and the count of the generator over the slots, and the
\* locals vehicles and avg and the date of daily_report.
NoView == [pos |-> 0, count |-> 0, vehicles |-> 0, avg |-> 0, date |-> 0]

\* ---------------------------------------------------------------- __init__
Init ==
    /\ total_slots = NumSlots
    /\ parking_slots = [i \in 1 .. NumSlots |-> None]
    /\ revenue_today = 0
    /\ revenue_drift = 0
    /\ vehicles_today = 0
    /\ daily_records = <<>>
    /\ now = 0
    /\ charged = EmptyBag
    /\ admitted = [i \in 1 .. NumSlots |-> None]
    /\ locking = FALSE
    /\ pc = [c \in Callers |-> "idle"]
    /\ found = [c \in Callers |-> NoArrival]
    /\ leaving = [c \in Callers |-> NoDeparture]
    /\ viewing = [c \in Callers |-> NoView]

\* ---------------------------------------------------------------- clock
\* datetime.now() moves forward between operations ...
ClockTick ==
    /\ \E t \in Times : t > now /\ now' = t
    /\ UNCHANGED <<ledger, history, callers>>

\* ... and a wall clock may also be set back.
ClockSetBack ==
    /\ \E t \in Times : t < now /\ now' = t
    /\ UNCHANGED <<ledger, history, callers>>

\* ---------------------------------------------------------------- vehicle_entry
\* Variant: the free-slot lookup comes before the class check.
vehicle_entry_returns_full_first(vehicle_no, vehicle_type) ==
    IF find_free_slot = NoSlot
    THEN [outcome |-> "FacilityFull", slot |-> NoSlot, entry_time |-> NoTime]
    ELSE IF vehicle_type \notin DOMAIN pricing
    THEN [outcome |-> "InvalidClass", slot |-> NoSlot, entry_time |-> NoTime]
    ELSE [outcome |-> "Ok", slot |-> find_free_slot, entry_time |-> now]

\* What vehicle_entry returns in the current state: which of its three
\* messages, and the slot and entry time the success message names.
vehicle_entry_returns(vehicle_no, vehicle_type) ==
    IF vehicle_type \notin DOMAIN pricing
    THEN [outcome |-> "InvalidClass", slot |-> NoSlot, entry_time |-> NoTime]
    ELSE IF find_free_slot = NoSlot
    THEN [outcome |-> "FacilityFull", slot |-> NoSlot, entry_time |-> NoTime]
    ELSE [outcome |-> "Ok", slot |-> find_free_slot, entry_time |-> now]

\* Variant: the vehicle is counted before its class is checked.
vehicle_entry_counts_first(vehicle_no, vehicle_type) ==
    IF vehicle_type \notin DOMAIN pricing
    THEN /\ vehicles_today < MaxVehicles
         /\ vehicles_today' = vehicles_today + 1
         /\ UNCHANGED <<total_slots, parking_slots, revenue_today,
                        revenue_drift, daily_records, now, history, callers>>
    ELSE IF find_free_slot = NoSlot
    THEN UNCHANGED vars
    ELSE /\ vehicles_today < MaxVehicles
         /\ parking_slots' =
                [parking_slots EXCEPT ![find_free_slot] =
                    [vehicle_no |-> vehicle_no, type |-> vehicle_type,
                     entry_time |-> now]]
         /\ vehicles_today' = vehicles_today + 1
         /\ admitted' =
                [admitted EXCEPT ![find_free_slot] =
                    [vehicle_no |-> vehicle_no, type |-> vehicle_type,
                     entry_time |-> now]]
         /\ UNCHANGED <<total_slots, revenue_today, revenue_drift,
                        daily_records, now, charged, callers>>

\* Variant: the record is also written into the slot after the free one.
vehicle_entry_writes_two(vehicle_no, vehicle_type) ==
    IF vehicle_type \notin DOMAIN pricing
    THEN UNCHANGED vars
    ELSE IF find_free_slot = NoSlot
    THEN UNCHANGED vars
    ELSE /\ vehicles_today < MaxVehicles
         /\ parking_slots' =
                [k \in DOMAIN parking_slots |->
                   IF k \in {find_free_slot, find_free_slot + 1}
                   THEN [vehicle_no |-> vehicle_no, type |-> vehicle_type,
                         entry_time |-> now]
                   ELSE parking_slots[k]]
         /\ vehicles_today' = vehicles_today + 1
         /\ admitted' =
                [admitted EXCEPT ![find_free_slot] =
                    [vehicle_no |-> vehicle_no, type |-> vehicle_type,
                     entry_time |-> now]]
         /\ UNCHANGED <<total_slots, revenue_today, revenue_drift,
                        daily_records, now, charged, callers>>

\* Variant: in a full facility the vehicle takes slot 1 over.
vehicle_entry_overwrites_when_full(vehicle_no, vehicle_type) ==
    IF vehicle_type \notin DOMAIN pricing
    THEN UNCHANGED vars
    ELSE LET free_slot == IF find_free_slot = NoSlot THEN 1 ELSE find_free_slot
             entry_time == now
         IN  /\ vehicles_today < MaxVehicles
             /\ parking_slots' =
                    [parking_slots EXCEPT ![free_slot] =
                        [vehicle_no |-> vehicle_no, type |-> vehicle_type,
                         entry_time |-> entry_time]]
             /\ vehicles_today' = vehicles_today + 1
             /\ admitted' =
                    [admitted EXCEPT ![free_slot] =
                        [vehicle_no |-> vehicle_no, type |-> vehicle_type,
                         entry_time |-> entry_time]]
             /\ UNCHANGED <<total_slots, revenue_today, revenue_drift,
                            daily_records, now, charged, callers>>

vehicle_entry(vehicle_no, vehicle_type) ==
    IF vehicle_type \notin DOMAIN pricing
    THEN UNCHANGED vars
    ELSE IF find_free_slot = NoSlot
    THEN UNCHANGED vars
    ELSE LET free_slot == find_free_slot
             entry_time == now
         IN  /\ vehicles_today < MaxVehicles
             /\ vehicles_today' = vehicles_today + 1
             /\ parking_slots' =
                    [parking_slots EXCEPT ![free_slot] =
                        [vehicle_no |-> vehicle_no, type |-> vehicle_type,
                         entry_time |-> entry_time]]
             /\ admitted' =
                    [admitted EXCEPT ![free_slot] =
                        [vehicle_no |-> vehicle_no, type |-> vehicle_type,
                         entry_time |-> entry_time]]
             /\ UNCHANGED <<total_slots, revenue_today, revenue_drift,
                            daily_records, now, charged, callers>>

\* ---------------------------------------------------------------- calculate_charges
\* The pair (charges, exit_time) calculate_charges returns in the current
\* state; (0.0, None) for a slot without a vehicle.
calculate_charges(slot) ==
    LET vehicle_data == SlotGet(slot)
    IN  IF vehicle_data = None
        THEN [outcome |-> "SlotEmpty", charges |-> 0, exit_time |-> NoTime]
        ELSE [outcome |-> "Ok",
              charges |-> Charges(vehicle_data.type,
                                  now - vehicle_data.entry_time),
              exit_time |-> now]

\* Variant: computing the charge of an occupied slot also books it.
CalculateCharges_accrues(slot) ==
    /\ revenue_today' = revenue_today + calculate_charges(slot).charges
    /\ revenue_drift' = DriftAfterAdding(calculate_charges(slot).charges)
    /\ UNCHANGED <<total_slots, parking_slots, vehicles_today, daily_records,
                   now, history, callers>>

\* A call of calculate_charges by itself: it only reads.
CalculateCharges(slot) ==
    /\ calculate_charges(slot).outcome \in {"SlotEmpty", "Ok"}
    /\ UNCHANGED vars

\* ---------------------------------------------------------------- vehicle_exit
\* What vehicle_exit returns in the current state: the "empty or invalid"
\* message, or the receipt (duration formatted '.2f', hundredths of an hour).
vehicle_exit_returns(slot) ==
    LET vehicle_data == SlotGet(slot)
    IN  IF vehicle_data = None
        THEN [outcome |-> "SlotEmpty", slot |-> slot, vehicle_no |-> "",
              type |-> "None", entry_time |-> NoTime, exit_time |-> NoTime,
              duration |-> 0, charges |-> 0]
        ELSE LET c == calculate_charges(slot)
             IN  [outcome |-> "Ok", slot |-> slot,
                  vehicle_no |-> vehicle_data.vehicle_no,
                  type |-> vehicle_data.type,
                  entry_time |-> vehicle_data.entry_time,
                  exit_time |-> c.exit_time,
                  duration |-> RoundFloat(
                      (c.exit_time - vehicle_data.entry_time) * 5, 3, 0),
                  charges |-> c.charges]

\* Variant: no check that the slot holds a vehicle; the slot is assigned
\* whatever its number.
vehicle_exit_unguarded(slot) ==
    LET c == calculate_charges(slot)
    IN  /\ revenue_today' = revenue_today + c.charges
        /\ revenue_drift' = DriftAfterAdding(c.charges)
        /\ parking_slots' =
               [k \in DOMAIN parking_slots \cup {slot} |->
                  IF k = slot THEN None ELSE parking_slots[k]]
        /\ charged' = IF SlotGet(slot) = None THEN charged
                      ELSE charged (+) SetToBag({c.charges})
        /\ admitted' = [k \in DOMAIN admitted |->
                          IF k = slot THEN None ELSE admitted[k]]
        /\ UNCHANGED <<total_slots, vehicles_today, daily_records, now,
                       callers>>

\* Variant: the receipt shows the charge, the revenue gets the base price.
vehicle_exit_books_base(slot) ==
    LET vehicle_data == SlotGet(slot)
    IN  IF vehicle_data = None
        THEN UNCHANGED vars
        ELSE LET c == calculate_charges(slot)
             IN  /\ revenue_today' =
                        revenue_today + 100 * pricing[vehicle_data.type].base
                 /\ revenue_drift' =
                        DriftAfterAdding(100 * pricing[vehicle_data.type].base)
                 /\ parking_slots' = [parking_slots EXCEPT ![slot] = None]
                 /\ charged' = charged (+) SetToBag({c.charges})
                 /\ admitted' = [admitted EXCEPT ![slot] = None]
                 /\ UNCHANGED <<total_slots, vehicles_today, daily_records,
                                now, callers>>

\* Variant: a released vehicle is taken off the count.
vehicle_exit_uncounts(slot) ==
    LET vehicle_data == SlotGet(slot)
    IN  IF vehicle_data = None
        THEN UNCHANGED vars
        ELSE LET c == calculate_charges(slot)
             IN  /\ revenue_today' = revenue_today + c.charges
                 /\ revenue_drift' = DriftAfterAdding(c.charges)
                 /\ parking_slots' = [parking_slots EXCEPT ![slot] = None]
                 /\ vehicles_today' = vehicles_today - 1
                 /\ charged' = charged (+) SetToBag({c.charges})
                 /\ admitted' = [admitted EXCEPT ![slot] = None]
                 /\ UNCHANGED <<total_slots, daily_records, now, callers>>

\* Variant: the slot is not cleared.
vehicle_exit_keeps_slot(slot) ==
    LET vehicle_data == SlotGet(slot)
    IN  IF vehicle_data = None
        THEN UNCHANGED vars
        ELSE LET c == calculate_charges(slot)
             IN  /\ revenue_today' = revenue_today + c.charges
                 /\ revenue_drift' = DriftAfterAdding(c.charges)
                 /\ charged' = charged (+) SetToBag({c.charges})
                 /\ admitted' = [admitted EXCEPT ![slot] = None]
                 /\ UNCHANGED <<total_slots, parking_slots, vehicles_today,
                                daily_records, now, callers>>

\* Variant: the slot's key is deleted instead of being set to None.
vehicle_exit_deletes_key(slot) ==
    LET vehicle_data == SlotGet(slot)
    IN  IF vehicle_data = None
        THEN UNCHANGED vars
        ELSE LET c == calculate_charges(slot)
             IN  /\ revenue_today' = revenue_today + c.charges
                 /\ revenue_drift' = DriftAfterAdding(c.charges)
                 /\ parking_slots' =
                        [k \in DOMAIN parking_slots \ {slot} |-> parking_slots[k]]
                 /\ charged' = charged (+) SetToBag({c.charges})
                 /\ admitted' = [admitted EXCEPT ![slot] = None]
                 /\ UNCHANGED <<total_slots, vehicles_today, daily_records,
                                now, callers>>

vehicle_exit(slot) ==
    LET vehicle_data == SlotGet(slot)
    IN  IF vehicle_data = None
        THEN UNCHANGED vars
        ELSE LET c == calculate_charges(slot)
             IN  /\ revenue_today' = revenue_today + c.charges
                 /\ revenue_drift' = DriftAfterAdding(c.charges)
                 /\ parking_slots' = [parking_slots EXCEPT ![slot] = None]
                 /\ charged' = charged (+) SetToBag({c.charges})
                 /\ admitted' = [admitted EXCEPT ![slot] = None]
                 /\ UNCHANGED <<total_slots, vehicles_today, daily_records,
                                now, callers>>

\* ---------------------------------------------------------------- display_status
\* The slots display_status prints a line for.
OccupiedSlots == {k \in DOMAIN parking_slots : parking_slots[k] # None}

\* The lines display_status prints: the totals, then one line per occupied
\* slot with the elapsed time formatted '.1f' (tenths of an hour).  The clock
\* is read once for every line: reads[s] is the reading for the line of s.
StatusView(reads) ==
    [total |-> total_slots, occupied |-> OccupiedCount,
     free |-> total_slots - OccupiedCount,
     revenue |-> revenue_today, vehicles |-> vehicles_today,
     lines |-> [s \in OccupiedSlots |->
                  [vehicle_no |-> parking_slots[s].vehicle_no,
                   type |-> parking_slots[s].type,
                   tenths |-> ElapsedTenths(
                                 reads[s] - parking_slots[s].entry_time)]]]

\* display_status: the first line is printed with the clock reading of the
\* call, each later one with whatever the clock reads by then; the clock is
\* left at the last reading.  No field is written.
display_status ==
    \E reads \in [OccupiedSlots -> Times] :
        /\ \A s \in OccupiedSlots :
              (\A k \in OccupiedSlots : s <= k) => reads[s] = now
        /\ StatusView(reads).total = total_slots
        /\ now' = IF OccupiedSlots = {} THEN now
                  ELSE reads[CHOOSE s \in OccupiedSlots :
                                 \A k \in OccupiedSlots : k <= s]
        /\ UNCHANGED <<ledger, history, callers>>

\* ---------------------------------------------------------------- daily_report
\* The numeric fields of the text block daily_report builds: the date
\* ('%Y-%m-%d', the day of `now`), the counters, the average formatted
\* '.2f' (cents) and the occupancy at this instant.
\* Variant: the peak is the number of vehicles admitted so far.
Report_peak_counts_admissions ==
    LET vehicles == vehicles_today
        avg == IF vehicles # 0
               THEN AveragePerVehicle(revenue_today, revenue_drift, vehicles)
               ELSE 0
        peak == vehicles_today
    IN  [date |-> now \div 1440, vehicles |-> vehicles,
         revenue |-> revenue_today, avg |-> avg, peak |-> peak,
         total |-> total_slots]

\* Variant: the average is taken over the vehicles that have left.
Report_average_over_departed ==
    LET vehicles == vehicles_today
        departed == vehicles_today - OccupiedCount
        avg == IF departed # 0
               THEN AveragePerVehicle(revenue_today, revenue_drift, departed)
               ELSE 0
        peak == OccupiedCount
    IN  [date |-> now \div 1440, vehicles |-> vehicles,
         revenue |-> revenue_today, avg |-> avg, peak |-> peak,
         total |-> total_slots]

Report ==
    LET vehicles == vehicles_today
        avg == IF vehicles # 0
               THEN AveragePerVehicle(revenue_today, revenue_drift, vehicles)
               ELSE 0
        peak == OccupiedCount
    IN  [date |-> now \div 1440, vehicles |-> vehicles,
         revenue |-> revenue_today, avg |-> avg, peak |-> peak,
         total |-> total_slots]

\* Variant: the report closes the day and resets the revenue.
daily_report_resets_revenue ==
    /\ daily_records' = Append(daily_records, Report)
    /\ revenue_today' = 0
    /\ revenue_drift' = 0
    /\ UNCHANGED <<total_slots, parking_slots, vehicles_today, now, history,
                   callers>>

\* Variant: only the latest report is kept.
daily_report_keeps_latest ==
    /\ daily_records' = <<Report>>
    /\ UNCHANGED <<total_slots, parking_slots, revenue_today, revenue_drift,
                   vehicles_today, now, history, callers>>

daily_report ==
    /\ daily_records' = Append(daily_records, Report)
    /\ UNCHANGED <<total_slots, parking_slots, revenue_today, revenue_drift,
                   vehicles_today, now, history, callers>>

\* Variant: saving the report closes the day and resets the revenue.
save_report_resets_revenue ==
    /\ daily_records' = Append(daily_records, Report)
    /\ revenue_today' = 0
    /\ revenue_drift' = 0
    /\ UNCHANGED <<total_slots, parking_slots, vehicles_today, now, history,
                   callers>>

\* save_report appends the text of daily_report() to a file outside the
\* ledger; inside the ledger it is one call of daily_report.
save_report ==
    /\ daily_records' = Append(daily_records, Report)
    /\ UNCHANGED <<total_slots, parking_slots, revenue_today, revenue_drift,
                   vehicles_today, now, history, callers>>

\* ---------------------------------------------------------------- the program
Next ==
    \/ ClockTick
    \/ ClockSetBack
    \/ \E a \in Arrivals : vehicle_entry(a[1], a[2])
    \/ \E s \in SlotInputs : CalculateCharges(s)
    \/ \E s \in SlotInputs : vehicle_exit(s)
    \/ display_status
    \/ Len(daily_records) < MaxReports /\ daily_report
    \/ Len(daily_records) < MaxReports /\ save_report

Spec == Init /\ [][Next]_vars

\* ---------------------------------------------------------------- more reports
\* The same program with one report more and one admission fewer, so that
\* reports follow one another.
NextReports ==
    \/ ClockTick
    \/ ClockSetBack
    \/ \E a \in Arrivals :
          vehicles_today < MaxVehicles - 1 /\ vehicle_entry(a[1], a[2])
    \/ \E s \in SlotInputs : CalculateCharges(s)
    \/ \E s \in SlotInputs : vehicle_exit(s)
    \/ display_status
    \/ Len(daily_records) < MaxReports + 1 /\ daily_report
    \/ Len(daily_records) < MaxReports + 1 /\ save_report

SpecReports == Init /\ [][NextReports]_vars

\* ---------------------------------------------------------------- several callers
\* Several callers on one ledger.  Each operation is taken in the steps
\* between which another caller can run: a step ends after each read of a
\* slot, of the clock or of the counters that a call or a loop iteration
\* separates from the next access.  Without a lock any idle caller may start
\* an operation between two steps of another; with `locking` every
\* operation holds one lock around the ledger from its first to its last
\* statement.
InitCallers ==
    /\ total_slots = NumSlots
    /\ parking_slots = [i \in 1 .. NumSlots |-> None]
    /\ revenue_today = 0
    /\ revenue_drift = 0
    /\ vehicles_today = 0
    /\ daily_records = <<>>
    /\ now = 0
    /\ charged = EmptyBag
    /\ admitted = [i \in 1 .. NumSlots |-> None]
    /\ locking \in BOOLEAN
    /\ pc = [c \in Callers |-> "idle"]
    /\ found = [c \in Callers |-> NoArrival]
    /\ leaving = [c \in Callers |-> NoDeparture]
    /\ viewing = [c \in Callers |-> NoView]

\* The callers inside vehicle_entry.
Entering == {c \in Callers : pc[c] \in {"scanning", "located", "timed"}}

\* The callers that were given a slot by find_free_slot and have not written
\* it yet.
Located == {c \in Callers : pc[c] \in {"located", "timed"}}

\* The callers inside an operation that writes no slot and no counter:
\* calculate_charges called on its own, display_status, daily_report and
\* save_report.
Readers ==
    {c \in Callers :
        pc[c] \in {"priced", "tallying", "tallied", "listing", "counting",
                   "counted", "dated"}}

\* The callers inside an operation.
Busy == {c \in Callers : pc[c] # "idle"}

\* The lock can be taken: it is held by a caller from the first to the last
\* statement of its operation.
LockFree == locking => Busy = {}

\* Caller c can begin an operation.  (A run of callers takes one report: once
\* it is appended the operations under way finish and none begins.)
CanBegin(c) ==
    /\ pc[c] = "idle"
    /\ LockFree
    /\ daily_records = <<>>

\* vehicle_entry, lines 27-30: the class check and the call of
\* find_free_slot, which has read no slot yet.
entry_lookup(c, vehicle_no, vehicle_type) ==
    /\ CanBegin(c)
    /\ IF vehicle_type \notin DOMAIN pricing
       THEN UNCHANGED vars
       ELSE /\ vehicles_today + Cardinality(Entering) < MaxVehicles - 1
            /\ pc' = [pc EXCEPT ![c] = "scanning"]
            /\ found' = [found EXCEPT ![c] =
                            [slot |-> 1, vehicle_no |-> vehicle_no,
                             type |-> vehicle_type, entry_time |-> NoTime]]
            /\ UNCHANGED <<ledger, now, history, locking, leaving, viewing>>

\* Variant: the scan takes the slot it looks at whether or not it is free.
entry_scan_ignores_occupancy(c) ==
    /\ pc[c] = "scanning"
    /\ pc' = [pc EXCEPT ![c] = "located"]
    /\ UNCHANGED <<ledger, now, history, locking, found, leaving, viewing>>

\* find_free_slot, lines 21-24, one iteration of its loop: the slot at the
\* scan position is read; a free one is returned, after the last occupied
\* one None is returned and vehicle_entry answers "Parking Full".
entry_scan(c) ==
    /\ pc[c] = "scanning"
    /\ LET slot == found[c].slot
       IN  IF parking_slots[slot] = None
           THEN /\ pc' = [pc EXCEPT ![c] = "located"]
                /\ found' = found
           ELSE IF slot = total_slots
           THEN /\ pc' = [pc EXCEPT ![c] = "idle"]
                /\ found' = [found EXCEPT ![c] = NoArrival]
           ELSE /\ pc' = pc
                /\ found' = [found EXCEPT ![c].slot = slot + 1]
    /\ UNCHANGED <<ledger, now, history, locking, leaving, viewing>>

\* vehicle_entry, line 34: the clock is read.
entry_clock(c) ==
    /\ pc[c] = "located"
    /\ pc' = [pc EXCEPT ![c] = "timed"]
    /\ found' = [found EXCEPT ![c].entry_time = now]
    /\ UNCHANGED <<ledger, now, history, locking, leaving, viewing>>

\* vehicle_entry, lines 35-40: the slot found earlier is written, whatever
\* it holds by now, with the clock reading taken earlier, and the counter is
\* raised.
entry_write(c) ==
    /\ pc[c] = "timed"
    /\ LET free_slot == found[c].slot
           entry_time == found[c].entry_time
       IN  /\ parking_slots' =
                  [parking_slots EXCEPT ![free_slot] =
                      [vehicle_no |-> found[c].vehicle_no,
                       type |-> found[c].type, entry_time |-> entry_time]]
           /\ admitted' =
                  [admitted EXCEPT ![free_slot] =
                      [vehicle_no |-> found[c].vehicle_no,
                       type |-> found[c].type, entry_time |-> entry_time]]
    /\ vehicles_today' = vehicles_today + 1
    /\ pc' = [pc EXCEPT ![c] = "idle"]
    /\ found' = [found EXCEPT ![c] = NoArrival]
    /\ UNCHANGED <<total_slots, revenue_today, revenue_drift, daily_records,
                   now, charged, locking, leaving, viewing>>

\* vehicle_exit, lines 64-66: the slot is read; without a vehicle the
\* "empty or invalid" message is returned.
exit_check(c, slot) ==
    /\ CanBegin(c)
    /\ LET vehicle_data == SlotGet(slot)
       IN  IF vehicle_data = None
           THEN UNCHANGED vars
           ELSE /\ pc' = [pc EXCEPT ![c] = "checked"]
                /\ leaving' = [leaving EXCEPT ![c] =
                                  [NoDeparture EXCEPT
                                      !.slot = slot,
                                      !.vehicle_data = vehicle_data]]
                /\ UNCHANGED <<ledger, now, history, locking, found, viewing>>

\* vehicle_exit, line 68, calculate_charges, lines 48-50: the slot is read
\* again.  If it was emptied meanwhile (0.0, None) is returned and line 73
\* raises TypeError: the call ends with nothing written.
exit_read(c) ==
    /\ pc[c] = "checked"
    /\ LET vehicle_data == SlotGet(leaving[c].slot)
       IN  IF vehicle_data = None
           THEN /\ pc' = [pc EXCEPT ![c] = "idle"]
                /\ leaving' = [leaving EXCEPT ![c] = NoDeparture]
           ELSE /\ pc' = [pc EXCEPT ![c] = "reread"]
                /\ leaving' = [leaving EXCEPT ![c].charged_data = vehicle_data]
    /\ UNCHANGED <<ledger, now, history, locking, found, viewing>>

\* calculate_charges, lines 52-61, and vehicle_exit, lines 69-73: the clock
\* is read and the record read at line 48 is charged up to that reading.
exit_charge(c) ==
    /\ pc[c] = "reread"
    /\ pc' = [pc EXCEPT ![c] = "charged"]
    /\ leaving' =
           [leaving EXCEPT
               ![c].charges = Charges(leaving[c].charged_data.type,
                                      now - leaving[c].charged_data.entry_time),
               ![c].exit_time = now]
    /\ UNCHANGED <<ledger, now, history, locking, found, viewing>>

\* vehicle_exit, lines 74-75: the charge computed earlier is added to the
\* revenue and the slot is cleared, whatever it holds by now.
exit_write(c) ==
    /\ pc[c] = "charged"
    /\ revenue_today' = revenue_today + leaving[c].charges
    /\ revenue_drift' = DriftAfterAdding(leaving[c].charges)
    /\ parking_slots' = [parking_slots EXCEPT ![leaving[c].slot] = None]
    /\ charged' = charged (+) SetToBag({leaving[c].charges})
    /\ admitted' = [admitted EXCEPT ![leaving[c].slot] = None]
    /\ pc' = [pc EXCEPT ![c] = "idle"]
    /\ leaving' = [leaving EXCEPT ![c] = NoDeparture]
    /\ UNCHANGED <<total_slots, vehicles_today, daily_records, now, locking,
                   found, viewing>>

\* calculate_charges called on its own, lines 48-50: the slot is read;
\* without a vehicle (0.0, None) is returned.
charges_read(c, slot) ==
    /\ CanBegin(c)
    /\ Readers = {}
    /\ LET vehicle_data == SlotGet(slot)
       IN  IF vehicle_data = None
           THEN UNCHANGED vars
           ELSE /\ pc' = [pc EXCEPT ![c] = "priced"]
                /\ leaving' = [leaving EXCEPT ![c] =
                                  [NoDeparture EXCEPT
                                      !.slot = slot,
                                      !.charged_data = vehicle_data]]
                /\ UNCHANGED <<ledger, now, history, locking, found, viewing>>

\* What calculate_charges returns to caller c, who read the slot at line 48
\* and now reads the clock.
charges_returned(c) ==
    [outcome |-> "Ok",
     charges |-> Charges(leaving[c].charged_data.type,
                         now - leaving[c].charged_data.entry_time),
     exit_time |-> now]

\* calculate_charges called on its own, lines 52-61: the clock is read and
\* the charge of the record read earlier is returned.
charges_return(c) ==
    /\ pc[c] = "priced"
    /\ charges_returned(c).outcome = "Ok"
    /\ pc' = [pc EXCEPT ![c] = "idle"]
    /\ leaving' = [leaving EXCEPT ![c] = NoDeparture]
    /\ UNCHANGED <<ledger, now, history, locking, found, viewing>>

\* The occupancy count of `sum(1 for v in ... if v is not None)` after the
\* slot at the position of caller c has been read.
CountedBy(c) ==
    viewing[c].count
        + (IF parking_slots[viewing[c].pos] # None THEN 1 ELSE 0)

\* display_status, lines 85-86: the header is printed and the count of the
\* occupied slots begins.
display_begin(c) ==
    /\ CanBegin(c)
    /\ Readers = {}
    /\ pc' = [pc EXCEPT ![c] = "tallying"]
    /\ viewing' = [viewing EXCEPT ![c] = [NoView EXCEPT !.pos = 1]]
    /\ UNCHANGED <<ledger, now, history, locking, found, leaving>>

\* display_status, line 86, one step of the generator: one slot is read.
\* After the last one line 88 prints the count beside total_slots.
display_tally(c) ==
    /\ pc[c] = "tallying"
    /\ pc' = [pc EXCEPT ![c] = IF viewing[c].pos = total_slots
                               THEN "tallied" ELSE "tallying"]
    /\ viewing' = [viewing EXCEPT
                      ![c].count = CountedBy(c),
                      ![c].pos = IF viewing[c].pos = total_slots
                                 THEN 1 ELSE viewing[c].pos + 1]
    /\ UNCHANGED <<ledger, now, history, locking, found, leaving>>

\* What line 89 prints for caller c: the revenue (':.2f', cents) and the
\* counter as they are when the line is formatted.
counters_printed(c) ==
    [total |-> total_slots, occupied |-> viewing[c].count,
     free |-> total_slots - viewing[c].count,
     revenue |-> revenue_today, vehicles |-> vehicles_today]

\* display_status, line 89: revenue_today and vehicles_today are read and
\* printed.
display_counters(c) ==
    /\ pc[c] = "tallied"
    /\ counters_printed(c).total = total_slots
    /\ pc' = [pc EXCEPT ![c] = "listing"]
    /\ viewing' = [viewing EXCEPT ![c].count = 0]
    /\ UNCHANGED <<ledger, now, history, locking, found, leaving>>

\* What lines 92-95 print for caller c at its position: nothing for a free
\* slot, else the vehicle with the time it has spent by the clock read in
\* the same iteration.
line_printed(c) ==
    LET slot == viewing[c].pos
        data == parking_slots[slot]
    IN  IF data = None THEN <<>>
        ELSE <<[slot |-> slot, vehicle_no |-> data.vehicle_no,
                type |-> data.type,
                tenths |-> ElapsedTenths(now - data.entry_time)]>>

\* display_status, lines 92-95, one iteration of the loop: the slot is
\* read and, if occupied, printed with a fresh clock reading.
display_line(c) ==
    /\ pc[c] = "listing"
    /\ Len(line_printed(c)) <= 1
    /\ IF viewing[c].pos = total_slots
       THEN /\ pc' = [pc EXCEPT ![c] = "idle"]
            /\ viewing' = [viewing EXCEPT ![c] = NoView]
       ELSE /\ pc' = pc
            /\ viewing' = [viewing EXCEPT ![c].pos = viewing[c].pos + 1]
    /\ UNCHANGED <<ledger, now, history, locking, found, leaving>>

\* daily_report (also as called by save_report), lines 98-99: the counter
\* and the revenue are read and the average is taken.
report_begin(c) ==
    /\ CanBegin(c)
    /\ Readers = {}
    /\ pc' = [pc EXCEPT ![c] = "counting"]
    /\ viewing' =
           [viewing EXCEPT ![c] =
               [NoView EXCEPT
                   !.pos = 1,
                   !.vehicles = vehicles_today,
                   !.avg = IF vehicles_today # 0
                           THEN AveragePerVehicle(revenue_today, revenue_drift,
                                                  vehicles_today)
                           ELSE 0]]
    /\ UNCHANGED <<ledger, now, history, locking, found, leaving>>

\* daily_report, line 101, one step of the generator: one slot is read.
report_count(c) ==
    /\ pc[c] = "counting"
    /\ pc' = [pc EXCEPT ![c] = IF viewing[c].pos = total_slots
                               THEN "counted" ELSE "counting"]
    /\ viewing' = [viewing EXCEPT
                      ![c].count = CountedBy(c),
                      ![c].pos = IF viewing[c].pos = total_slots
                                 THEN 1 ELSE viewing[c].pos + 1]
    /\ UNCHANGED <<ledger, now, history, locking, found, leaving>>

\* daily_report, line 104: the clock is read for the date.
report_date(c) ==
    /\ pc[c] = "counted"
    /\ pc' = [pc EXCEPT ![c] = "dated"]
    /\ viewing' = [viewing EXCEPT ![c].date = now \div 1440]
    /\ UNCHANGED <<ledger, now, history, locking, found, leaving>>

\* daily_report, lines 105-111: revenue_today and total_slots are read
\* again for the text, which is appended to daily_records.
report_append(c) ==
    /\ pc[c] = "dated"
    /\ daily_records' =
           Append(daily_records,
                  [date |-> viewing[c].date, vehicles |-> viewing[c].vehicles,
                   revenue |-> revenue_today, avg |-> viewing[c].avg,
                   peak |-> viewing[c].count, total |-> total_slots])
    /\ pc' = [pc EXCEPT ![c] = "idle"]
    /\ viewing' = [viewing EXCEPT ![c] = NoView]
    /\ UNCHANGED <<total_slots, parking_slots, revenue_today, revenue_drift,
                   vehicles_today, now, history, locking, found, leaving>>

\* (The clock only moves forward here; one admission fewer than in Spec; one
\* caller at a time inside an operation that writes no slot and no counter;
\* one report.)
NextCallers ==
    \/ ClockTick
    \/ \E c \in Callers, a \in Arrivals : entry_lookup(c, a[1], a[2])
    \/ \E c \in Callers : entry_scan(c)
    \/ \E c \in Callers : entry_clock(c)
    \/ \E c \in Callers : entry_write(c)
    \/ \E c \in Callers, s \in SlotInputs : exit_check(c, s)
    \/ \E c \in Callers : exit_read(c)
    \/ \E c \in Callers : exit_charge(c)
    \/ \E c \in Callers : exit_write(c)
    \/ \E c \in Callers, s \in SlotInputs : charges_read(c, s)
    \/ \E c \in Callers : charges_return(c)
    \/ \E c \in Callers : display_begin(c)
    \/ \E c \in Callers : display_tally(c)
    \/ \E c \in Callers : display_counters(c)
    \/ \E c \in Callers : display_line(c)
    \/ \E c \in Callers : report_begin(c)
    \/ \E c \in Callers : report_count(c)
    \/ \E c \in Callers : report_date(c)
    \/ \E c \in Callers : report_append(c)

SpecCallers == InitCallers /\ [][NextCallers]_vars

\* ---------------------------------------------------------------- properties
\* The vocabulary of the statements below, written without the operators of
\* the model above.
ValidClasses == {"bike", "car", "ev", "heavy"}

FreeSlots == {s \in 1 .. total_slots : parking_slots[s] = None}

AllOccupied == \A s \in 1 .. total_slots : parking_slots[s] # None

LowestFree == CHOOSE s \in FreeSlots : \A f \in FreeSlots : s <= f

\* C1 (state part): with a valid class, vehicle_entry reports success and the
\* lowest-indexed free slot whenever a slot is free, and FacilityFull when
\* all slots are occupied.
C1_EntryOutcome ==
    \A v \in VehicleNos, t \in VehicleTypes \cap ValidClasses :
        LET r == vehicle_entry_returns(v, t)
        IN  IF FreeSlots # {}
            THEN r.outcome = "Ok" /\ r.slot = LowestFree
            ELSE r.outcome = "FacilityFull"

\* C1 (step part): a successful vehicle_entry occupies exactly the
\* lowest-indexed free slot and no other.
C1_EntryEffect ==
    \A v \in VehicleNos, t \in VehicleTypes \cap ValidClasses :
        vehicle_entry(v, t) =>
            /\ FreeSlots # {}
            /\ parking_slots'[LowestFree] =
                   [vehicle_no |-> v, type |-> t, entry_time |-> now]
            /\ \A s \in 1 .. total_slots :
                   s # LowestFree => parking_slots'[s] = parking_slots[s]

\* C1: in every reachable state vehicle_entry with a valid class succeeds iff
\* a slot is free, then occupies exactly the lowest-indexed free slot, and
\* fails with FacilityFull when every slot is occupied.
C1_LowestFreeOrFull == []C1_EntryOutcome /\ [][C1_EntryEffect]_vars

\* C1 witness: both slots 1 and 2 were filled and released, and the next
\* vehicle was put into slot 1 again.
C1_Witness ==
    /\ vehicles_today >= 3
    /\ BagCardinality(charged) >= 2
    /\ parking_slots[1] # None
    /\ parking_slots[2] = None

\* C2 as claimed: in a full facility vehicle_entry reports FacilityFull for
\* every class, valid or not.
C2_FullWinsOverInvalid ==
    AllOccupied =>
        \A v \in VehicleNos, t \in VehicleTypes :
            vehicle_entry_returns(v, t).outcome = "FacilityFull"

\* C2 amended: in a full facility vehicle_entry reports FacilityFull for
\* every valid class and InvalidClass for every other class.
C2_FullOnlyForValidClass ==
    AllOccupied =>
        \A v \in VehicleNos, t \in VehicleTypes :
            vehicle_entry_returns(v, t).outcome =
                IF t \in ValidClasses THEN "FacilityFull" ELSE "InvalidClass"

\* C2 witness: every slot is occupied.
C2_Witness == AllOccupied /\ vehicles_today = total_slots

\* C3 (state part): an unknown class is answered InvalidClass.
C3_InvalidOutcome ==
    \A v \in VehicleNos, t \in VehicleTypes \ ValidClasses :
        vehicle_entry_returns(v, t).outcome = "InvalidClass"

\* C3 (step part): vehicle_entry with an unknown class changes no field.
C3_InvalidEffect ==
    \A v \in VehicleNos, t \in VehicleTypes \ ValidClasses :
        vehicle_entry(v, t) => UNCHANGED ledger

\* C3: vehicle_entry with a class outside bike, car, ev, heavy fails with
\* InvalidClass and leaves slots, vehicles_today, revenue_today and
\* daily_records unchanged.
C3_InvalidClassNoChange == []C3_InvalidOutcome /\ [][C3_InvalidEffect]_vars

\* C3 witness: a ledger with a parked vehicle, a free slot, revenue and a
\* report, in which an admit of an unknown class has something to disturb.
C3_Witness ==
    /\ FreeSlots # {}
    /\ ~ (\A s \in 1 .. total_slots : parking_slots[s] = None)
    /\ revenue_today > 0
    /\ Len(daily_records) > 0
    /\ VehicleTypes \ ValidClasses # {}

\* A slot number that does not name an occupied slot.
NoVehicleAt(s) == s \notin 1 .. total_slots \/ parking_slots[s] = None

\* C4 (state part): vehicle_exit on such a slot answers SlotEmpty.
C4_EmptyOutcome ==
    \A s \in SlotInputs :
        NoVehicleAt(s) => vehicle_exit_returns(s).outcome = "SlotEmpty"

\* C4 (step part): such a call changes no field and no key of the table.
C4_EmptyEffect ==
    \A s \in SlotInputs :
        (NoVehicleAt(s) /\ vehicle_exit(s)) =>
            /\ UNCHANGED ledger
            /\ DOMAIN parking_slots' = DOMAIN parking_slots

\* C4: vehicle_exit on a free, never-occupied or out-of-range slot fails with
\* SlotEmpty and mutates nothing, the key set of the slot table included.
C4_ExitOnEmptyNoChange == []C4_EmptyOutcome /\ [][C4_EmptyEffect]_vars

\* C4 witness: slot 1 was released and is free again, slot 2 was never
\* occupied, and revenue has been taken.
C4_Witness ==
    /\ parking_slots[1] = None
    /\ parking_slots[2] = None
    /\ vehicles_today = 1
    /\ revenue_today > 0

\* The total of a bag of amounts.
RECURSIVE SumBag(_)
SumBag(b) ==
    IF BagToSet(b) = {} THEN 0
    ELSE LET x == CHOOSE y \in BagToSet(b) : TRUE
         IN  x * CopiesIn(x, b)
             + SumBag([y \in BagToSet(b) \ {x} |-> b[y]])

\* The smallest charge of a bag that is not empty.
LeastCharge(b) == CHOOSE x \in BagToSet(b) : \A y \in BagToSet(b) : x <= y

\* The drift of the float that `+=` gives when the charges of bag b are added
\* in ascending order to the float of n cents with drift t.
RECURSIVE AscendingDrift(_, _, _)
AscendingDrift(b, n, t) ==
    IF BagToSet(b) = {} THEN t
    ELSE LET x == LeastCharge(b)
         IN  AscendingDrift(b (-) SetToBag({x}), n + x,
                            FloatDrift(n + x, 1, t + FloatDrift(x, 1, 0)))

\* C5 as claimed: revenue_today is the sum of the charges of all successful
\* vehicle_exit calls so far, whatever their order, and is never negative:
\* its cents are the total of the charges, and its float is the one the same
\* charges give in any other order of release, the ascending one for
\* instance.
C5_RevenueIsSumOfCharges ==
    /\ revenue_today = SumBag(charged)
    /\ revenue_drift = AscendingDrift(charged, 0, 0)
    /\ revenue_today >= 0

\* Durations (minutes) the statement about charges is evaluated on: every
\* difference of two clock readings, the 2 hours of the boundary with a
\* minute on either side, and the 1 hour and 3 hours of the examples.
ClaimDurations == {a - b : a, b \in Times} \cup {60, 119, 120, 121, 180}

\* charge = base for d <= 2 h; base + (d - 2 h) x hourly, to the nearest cent,
\* for d > 2 h.  In cents and minutes the exact overage is (d - 120) * hourly
\* * 5 / 3.
ChargeAsClaimed(type, d, cents) ==
    IF d <= 120
    THEN cents = 100 * pricing[type].base
    ELSE LET exact3 == 300 * pricing[type].base
                       + (d - 120) * pricing[type].hourly * 5
             diff3 == 3 * cents - exact3
         IN  2 * diff3 <= 3 /\ 2 * diff3 >= 0 - 3

\* C6: the charge of every occupied slot, and of every class at every
\* duration, is the base up to and including 2 hours and base + (duration - 2)
\* x hourly beyond; a car after 1 hour pays 20, a bike after 3 hours 15.
C6_ChargeFormula ==
    /\ \A s \in 1 .. total_slots :
          parking_slots[s] # None =>
              /\ calculate_charges(s).outcome = "Ok"
              /\ ChargeAsClaimed(parking_slots[s].type,
                                 now - parking_slots[s].entry_time,
                                 calculate_charges(s).charges)
    /\ \A type \in ValidClasses, d \in ClaimDurations :
          ChargeAsClaimed(type, d, Charges(type, d))
    /\ Charges("car", 60) = 2000
    /\ Charges("bike", 180) = 1500

\* C6 witness: one vehicle parked for more than 2 hours (2 h 04 min, a
\* charge that needs rounding) beside one parked for less.
C6_Witness ==
    \E s, u \in 1 .. total_slots :
        /\ parking_slots[s] # None
        /\ parking_slots[u] # None
        /\ now - parking_slots[s].entry_time = 124
        /\ now - parking_slots[u].entry_time \in 0 .. 120

\* C7 (step): a successful vehicle_exit(s) leaves s free, and if the
\* facility was full the next vehicle_entry succeeds and is given s.
C7_ExitEffect ==
    \A s \in 1 .. total_slots :
        (parking_slots[s] # None /\ vehicle_exit(s)) =>
            /\ parking_slots'[s] = None
            /\ AllOccupied =>
                 \A v \in VehicleNos, t \in VehicleTypes \cap ValidClasses :
                     /\ vehicle_entry_returns(v, t)'.outcome = "Ok"
                     /\ vehicle_entry_returns(v, t)'.slot = s

\* C7: after a successful vehicle_exit(slot) the slot is free and, the
\* facility having been full, the very next valid admit is placed in it.
C7_ReleasedSlotIsReused == [][C7_ExitEffect]_vars

\* C7 witness: the facility was full, one vehicle left and the next admit
\* filled the facility again.
C7_Witness ==
    /\ AllOccupied
    /\ BagCardinality(charged) = 1
    /\ vehicles_today = total_slots + 1

\* A successful call of each mutator, as a step.
EntryOkInto(s) ==
    \E v \in VehicleNos, t \in VehicleTypes :
        /\ vehicle_entry_returns(v, t).outcome = "Ok"
        /\ vehicle_entry_returns(v, t).slot = s
        /\ vehicle_entry(v, t)

ExitOkOf(s) ==
    /\ vehicle_exit_returns(s).outcome = "Ok"
    /\ vehicle_exit(s)

\* A step of an operation other than a successful vehicle_exit.
OtherThanExitOk ==
    \/ \E v \in VehicleNos, t \in VehicleTypes : vehicle_entry(v, t)
    \/ \E s \in SlotInputs : CalculateCharges(s)
    \/ \E s \in SlotInputs :
          vehicle_exit_returns(s).outcome # "Ok" /\ vehicle_exit(s)
    \/ display_status
    \/ daily_report
    \/ save_report

\* C8 (step): a slot changes only from free to occupied by a successful
\* vehicle_entry into it, or from occupied to free by a successful
\* vehicle_exit of it; revenue_today changes only in a successful
\* vehicle_exit; a step that frees a slot or changes the revenue is a step
\* of no other operation.
C8_StepShape ==
    /\ \A s \in 1 .. total_slots :
          parking_slots'[s] # parking_slots[s] =>
              \/ parking_slots[s] = None /\ parking_slots'[s] # None
                    /\ EntryOkInto(s)
              \/ parking_slots[s] # None /\ parking_slots'[s] = None
                    /\ ExitOkOf(s)
    /\ revenue_today' # revenue_today => \E s \in SlotInputs : ExitOkOf(s)
    /\ (\/ revenue_today' # revenue_today
        \/ \E s \in 1 .. total_slots :
              parking_slots[s] # None /\ parking_slots'[s] = None)
          => ~OtherThanExitOk

\* C8: each slot moves only Free -> Occupied (successful vehicle_entry) and
\* Occupied -> Free (successful vehicle_exit of that slot), and a successful
\* vehicle_exit is the only step that frees a slot or changes revenue_today.
C8_OnlyExitFreesAndAccrues == [][C8_StepShape]_vars

\* C8 witness: a slot has gone Free -> Occupied -> Free -> Occupied, with
\* revenue accrued and a report taken in between.
C8_Witness ==
    /\ parking_slots[1] # None
    /\ vehicles_today >= 2
    /\ revenue_today > 0
    /\ Len(daily_records) > 0
    /\ daily_records[1].revenue = 0

\* The slots whose occupancy record carries the identifier v.
SlotsOf(v) ==
    {s \in 1 .. total_slots :
        parking_slots[s] # None /\ parking_slots[s].vehicle_no = v}

\* C9 as claimed: no vehicle identifier is recorded in more than one slot.
C9_IdentifierInOneSlot ==
    \A v \in VehicleNos : Cardinality(SlotsOf(v)) <= 1

\* C9 amended (step): a successful vehicle_entry(v, ..) adds v's record to
\* exactly one slot, a successful vehicle_exit removes exactly one record,
\* and nothing else changes the slots that carry an identifier.
C9_StepShape ==
    \A v \in VehicleNos :
        LET before == Cardinality(SlotsOf(v))
            after == Cardinality(SlotsOf(v)')
        IN  /\ (\E t \in VehicleTypes :
                   vehicle_entry_returns(v, t).outcome = "Ok"
                   /\ vehicle_entry(v, t))
               => after = before + 1
            /\ after # before =>
                 \/ /\ after = before + 1
                    /\ \E t \in VehicleTypes : vehicle_entry(v, t)
                 \/ /\ after = before - 1
                    /\ \E s \in SlotsOf(v) : ExitOkOf(s)

\* C9 amended: every successful admission occupies exactly one slot until the
\* release of that slot; identifiers are not checked, so an identifier
\* admitted again while parked is recorded in as many slots as admissions.
C9_OneSlotPerAdmission == [][C9_StepShape]_vars

\* C9 witness: the same identifier admitted twice is recorded in two slots.
C9_Witness ==
    \E v \in VehicleNos : Cardinality(SlotsOf(v)) = 2

\* An occupancy record: identifier, priced class, entry timestamp.
IsOccupancy(r) ==
    /\ DOMAIN r = {"vehicle_no", "type", "entry_time"}
    /\ r.vehicle_no \in VehicleNos
    /\ r.type \in ValidClasses
    /\ r.entry_time \in Times

\* C10: the slot identifiers are exactly 1..total_slots, total_slots keeps
\* its value, every slot holds nothing or one occupancy record, and between
\* 0 and total_slots slots are occupied.
C10_SlotTableShape ==
    /\ total_slots = NumSlots
    /\ DOMAIN parking_slots = 1 .. total_slots
    /\ \A s \in DOMAIN parking_slots :
          parking_slots[s] = None \/ IsOccupancy(parking_slots[s])
    /\ OccupiedCount >= 0
    /\ OccupiedCount <= total_slots

\* C10 witness: after admissions and releases the table is full again while
\* slot 2 holds a vehicle admitted later than the one in slot 1.
C10_Witness ==
    /\ OccupiedCount = total_slots
    /\ revenue_today > 0
    /\ parking_slots[1].entry_time < parking_slots[2].entry_time

\* C11: revenue_today never decreases: no step of any operation (admit,
\* release, charge computation, status, report, save) lowers or resets it.
C11_RevenueNeverDecreases == [][revenue_today' >= revenue_today]_vars

\* C11 witness: revenue was accrued, reported, and has grown since by a
\* second release.
C11_Witness ==
    /\ Len(daily_records) > 0
    /\ daily_records[1].revenue > 0
    /\ revenue_today > daily_records[1].revenue
    /\ BagCardinality(charged) >= 2

\* The four numbers of a report the claim compares.
ReportNumbers(r) == <<r.vehicles, r.revenue, r.avg, r.peak>>

\* C12 (step): daily_report appends exactly one report, the one of the
\* current state, and changes nothing else; no step shortens daily_records
\* or alters a stored report; and the numbers the next report would show
\* stay the same in every step that is no successful admit or release.
C12_StepShape ==
    /\ daily_report =>
          /\ Len(daily_records') = Len(daily_records) + 1
          /\ daily_records'[Len(daily_records')] = Report
          /\ parking_slots' = parking_slots
          /\ revenue_today' = revenue_today
          /\ vehicles_today' = vehicles_today
          /\ total_slots' = total_slots
    /\ Len(daily_records') >= Len(daily_records)
    /\ \A i \in 1 .. Len(daily_records) :
          daily_records'[i] = daily_records[i]
    /\ \/ ReportNumbers(Report') = ReportNumbers(Report)
       \/ \E s \in 1 .. total_slots : EntryOkInto(s) \/ ExitOkOf(s)

\* C12: daily_report appends exactly one report per call and changes nothing
\* else, daily_records is append-only, and consecutive reports with no admit
\* or release between them show the same vehicles, revenue, average and
\* peak.
C12_ReportsAppendOnly == [][C12_StepShape]_vars

\* C12 witness: two reports taken one after the other, after an admission,
\* a release and a second admission, show the same numbers.
C12_Witness ==
    /\ Len(daily_records) = 2
    /\ ReportNumbers(daily_records[1]) = ReportNumbers(daily_records[2])
    /\ daily_records[2].vehicles = 2
    /\ daily_records[2].peak = 1
    /\ daily_records[2].revenue > 0

\* C13 (state): calculate_charges on a slot without a vehicle -- free or not
\* a slot number -- returns SlotEmpty, amount 0 and no exit time.
C13_EmptyOutcome ==
    \A s \in SlotInputs :
        NoVehicleAt(s) =>
            calculate_charges(s) =
                [outcome |-> "SlotEmpty", charges |-> 0, exit_time |-> NoTime]

\* C13 (step): a call of calculate_charges, on any slot input, or of
\* display_status leaves the slot table, the counters and the reports
\* unchanged: a step that changes one of them is no step of either.
C13_ReadOnlyEffect ==
    (\/ parking_slots' # parking_slots
     \/ revenue_today' # revenue_today
     \/ vehicles_today' # vehicles_today
     \/ daily_records' # daily_records
     \/ total_slots' # total_slots) =>
        /\ \A s \in SlotInputs : ~CalculateCharges(s)
        /\ ~display_status

\* C13: calculate_charges and display_status are read-only on occupied, free
\* and out-of-range slots, and calculate_charges of a slot without a vehicle
\* is SlotEmpty with amount 0 and no exit time.
C13_ReadOnly == []C13_EmptyOutcome /\ [][C13_ReadOnlyEffect]_vars

\* C13 witness: slot 1 holds a vehicle whose charge is above the base, slot 2
\* is free, and nothing has been booked.
C13_Witness ==
    /\ parking_slots[1] # None
    /\ calculate_charges(1).outcome = "Ok"
    /\ calculate_charges(1).charges > 100 * pricing[parking_slots[1].type].base
    /\ parking_slots[2] = None
    /\ calculate_charges(0).outcome = "SlotEmpty"
    /\ calculate_charges(total_slots + 1).outcome = "SlotEmpty"
    /\ revenue_today = 0
    /\ StatusView([s \in OccupiedSlots |-> now]).occupied = 1
    /\ StatusView([s \in OccupiedSlots |-> now]).lines[1].tenths > 0

\* The average of report r is 0 for no vehicle and otherwise the cent
\* nearest to revenue / vehicles.
AverageAsClaimed(r) ==
    IF r.vehicles = 0
    THEN r.avg = 0
    ELSE /\ 2 * (r.avg * r.vehicles - r.revenue) <= r.vehicles
         /\ 2 * (r.revenue - r.avg * r.vehicles) <= r.vehicles

\* C14: daily_report has a result in every state: its average is 0 when
\* vehicles_today is 0 and revenue_today / vehicles_today otherwise, in the
\* report it would build now and in every stored one; and the divisor
\* vehicles_today counts the vehicles still parked together with those
\* released and charged.
C14_AverageDefined ==
    /\ Report.vehicles = vehicles_today
    /\ Report.revenue = revenue_today
    /\ AverageAsClaimed(Report)
    /\ \A i \in 1 .. Len(daily_records) : AverageAsClaimed(daily_records[i])
    /\ vehicles_today = OccupiedCount + BagCardinality(charged)

\* C14 witness: a report was taken before any admission (average 0); now
\* three vehicles are counted, one of them still parked, and the revenue of
\* the other two does not divide by three.
C14_Witness ==
    /\ Len(daily_records) = 1
    /\ daily_records[1].vehicles = 0
    /\ daily_records[1].avg = 0
    /\ vehicles_today = 3
    /\ OccupiedCount = 1
    /\ revenue_today % vehicles_today # 0
    /\ Report.avg > 0

\* C15 (state): the peak of the report daily_report would build now is the
\* number of slots occupied now.
C15_PeakNow == Report.peak = total_slots - Cardinality(FreeSlots)

\* C15 (step): the report a call of daily_report stores carries, as its
\* peak, the number of slots occupied at that call.
C15_PeakStored ==
    daily_report =>
        daily_records'[Len(daily_records')].peak =
            total_slots - Cardinality(FreeSlots)

\* C15: the peak occupancy of daily_report is the number of slots occupied
\* when the report is generated, not the highest occupancy reached before.
C15_PeakIsCurrentOccupancy == []C15_PeakNow /\ [][C15_PeakStored]_vars

\* C15 witness: both slots were filled, slot 1 was released, and the report
\* taken then (nothing admitted or released since) shows a peak of 1.
C15_Witness ==
    /\ Len(daily_records) = 1
    /\ daily_records[1].peak = 1
    /\ daily_records[1].vehicles = 2
    /\ vehicles_today = 2
    /\ BagCardinality(charged) = 1
    /\ daily_records[1].revenue = revenue_today
    /\ parking_slots[1] = None
    /\ parking_slots[2] # None

\* C16 (step): the receipt of a successful vehicle_exit(s) names the
\* identifier, the class and the entry time the admitting vehicle_entry
\* wrote into s; its exit time is the time of the call, its duration (in
\* hundredths of an hour) the exit time minus that entry time, and its amount
\* the charge of that class for that duration, by which revenue_today grows.
C16_ReceiptEffect ==
    \A s \in 1 .. total_slots :
        ExitOkOf(s) =>
            LET r == vehicle_exit_returns(s)
                a == admitted[s]
                minutes == r.exit_time - a.entry_time
            IN  /\ a # None
                /\ r.vehicle_no = a.vehicle_no
                /\ r.type = a.type
                /\ r.entry_time = a.entry_time
                /\ r.exit_time = now
                /\ 2 * (3 * r.duration - 5 * minutes) <= 3
                /\ 2 * (5 * minutes - 3 * r.duration) <= 3
                /\ ChargeAsClaimed(a.type, minutes, r.charges)
                /\ revenue_today' = revenue_today + r.charges

\* C16: the receipt of a successful vehicle_exit shows the identifier, class
\* and entry time written by the latest successful vehicle_entry into that
\* slot, the duration from that entry to the exit, and the charge for that
\* duration and class, which is the amount added to revenue_today.
C16_ReceiptMatchesAdmission == [][C16_ReceiptEffect]_vars

\* C16 witness: after a bike left at the base price, a car
\* that stayed beyond the base window has left too and was charged above its
\* base; a third vehicle is parked in slot 1.
C16_Witness ==
    /\ BagCardinality(charged) = 2
    /\ BagIn(100 * pricing["bike"].base, charged)
    /\ \E c \in BagToSet(charged) : c > 100 * pricing["car"].base
    /\ revenue_today = SumBag(charged)
    /\ parking_slots[1] # None
    /\ admitted[1] = parking_slots[1]
    /\ vehicles_today = 3

\* C17 (state): with every operation under the lock, a slot a caller was
\* given is still free when that caller comes to write it, and every
\* admission counted is a vehicle parked or a vehicle released: none was
\* overwritten.
C17_AtomicState ==
    locking =>
        /\ \A c \in Located : parking_slots[found[c].slot] = None
        /\ \A c, d \in Located : found[c].slot = found[d].slot => c = d
        /\ vehicles_today = OccupiedCount + BagCardinality(charged)

\* C17 (step): with every operation under the lock, the write of an admit
\* fills a free slot and changes no other slot.
C17_AtomicWrite ==
    \A c \in Callers :
        (locking /\ entry_write(c)) =>
            /\ parking_slots[found[c].slot] = None
            /\ parking_slots'[found[c].slot] # None
            /\ \A s \in 1 .. total_slots :
                  s # found[c].slot => parking_slots'[s] = parking_slots[s]

\* C17: several callers on one ledger, vehicle_entry and vehicle_exit each
\* atomic: in every interleaving no admit is assigned an occupied slot and
\* no occupancy is overwritten.  (With the scan, the clock reading and the
\* write of vehicle_entry as separate steps the overwrite is reachable:
\* C17_Witness.)
C17_AtomicEntryIsSafe == []C17_AtomicState /\ [][C17_AtomicWrite]_vars

\* C17 witness: without the lock two callers looked up the same free slot
\* and both wrote it: two admissions are counted, nothing was released, and
\* one slot is occupied.
C17_Witness ==
    /\ ~locking
    /\ Located = {}
    /\ vehicles_today = 2
    /\ charged = EmptyBag
    /\ OccupiedCount = 1
    /\ parking_slots[1] # None

\* C18 (state): vehicles_today is the number of occupied slots plus the
\* number of successful vehicle_exit calls, and there is no revenue without
\* a counted vehicle.
C18_CountState ==
    /\ vehicles_today = OccupiedCount + BagCardinality(charged)
    /\ revenue_today > 0 => vehicles_today > 0

\* C18 (step): vehicles_today changes only by +1 and only in a successful
\* vehicle_entry, and every successful vehicle_entry adds 1 to it.
C18_CountStep ==
    /\ \/ vehicles_today' = vehicles_today
       \/ /\ vehicles_today' = vehicles_today + 1
          /\ \E s \in 1 .. total_slots : EntryOkInto(s)
    /\ \A s \in 1 .. total_slots :
          (parking_slots[s] = None /\ parking_slots'[s] # None) =>
              vehicles_today' = vehicles_today + 1

\* C18: vehicles_today counts the successful vehicle_entry calls (from 0, +1
\* on each and on nothing else), which is the occupied slots plus the
\* successful vehicle_exit calls; so revenue_today > 0 implies
\* vehicles_today > 0.
C18_VehiclesCounted == []C18_CountState /\ [][C18_CountStep]_vars

\* C18 witness: three admissions counted, two vehicles parked and one
\* released, and the report taken after the second admission is stored.
C18_Witness ==
    /\ vehicles_today = 3
    /\ OccupiedCount = 2
    /\ BagCardinality(charged) = 1
    /\ revenue_today > 0
    /\ Len(daily_records) = 1
    /\ daily_records[1].vehicles = 2

\* C19 (state): every slot holds exactly what the vehicle_entry that
\* admitted its vehicle wrote, and nothing once that vehicle was released.
C19_RecordAsWritten ==
    \A s \in 1 .. total_slots : parking_slots[s] = admitted[s]

\* C19 (step): a record is written into a slot only by a successful
\* vehicle_entry, into a slot that was free and with no other slot changed;
\* the record of an occupied slot is left as it is by every step but the
\* successful vehicle_exit of that slot, which removes it.
C19_RecordStep ==
    /\ \A s \in 1 .. total_slots :
          (parking_slots'[s] # None /\ parking_slots'[s] # parking_slots[s]) =>
              /\ parking_slots[s] = None
              /\ EntryOkInto(s)
              /\ \A k \in 1 .. total_slots :
                    k # s => parking_slots'[k] = parking_slots[k]
    /\ \A s \in 1 .. total_slots :
          parking_slots[s] # None =>
              \/ parking_slots'[s] = parking_slots[s]
              \/ parking_slots'[s] = None /\ ExitOkOf(s)

\* C19: a successful vehicle_entry writes only a free slot and no other, and
\* an occupancy record stays as written at admission until the successful
\* vehicle_exit of its slot; no operation overwrites or edits it.
C19_OccupancyNeverOverwritten ==
    []C19_RecordAsWritten /\ [][C19_RecordStep]_vars

\* C19 witness: the vehicle in slot 1 still carries the earlier entry time
\* while, beside it, slot 2 holds a vehicle admitted at the later reading,
\* after a release and a report.
C19_Witness ==
    /\ parking_slots[1] # None
    /\ parking_slots[2] # None
    /\ parking_slots[1].entry_time < parking_slots[2].entry_time
    /\ parking_slots[2].entry_time = now
    /\ vehicles_today = 3
    /\ BagCardinality(charged) = 1
    /\ Len(daily_records) = 1
    /\ daily_records[1].peak = 1

\* C20 (state): the charge of every parked vehicle is at least the base
\* price of its class, and exactly the base price when the clock reads
\* earlier than its entry time.
C20_AtLeastBase ==
    \A s \in 1 .. total_slots :
        parking_slots[s] # None =>
            LET base == 100 * pricing[parking_slots[s].type].base
            IN  /\ base > 0
                /\ calculate_charges(s).charges >= base
                /\ now < parking_slots[s].entry_time =>
                      calculate_charges(s).charges = base

\* C20 (step): a successful vehicle_exit raises revenue_today by at least
\* the base price of the released vehicle's class, by exactly the base price
\* when the exit time is earlier than the entry time.
C20_ExitRaisesRevenue ==
    \A s \in 1 .. total_slots :
        ExitOkOf(s) =>
            LET base == 100 * pricing[parking_slots[s].type].base
            IN  /\ revenue_today' > revenue_today
                /\ revenue_today' - revenue_today >= base
                /\ now < parking_slots[s].entry_time =>
                      revenue_today' - revenue_today = base

\* C20: every successful vehicle_exit charges at least the base price of the
\* class, exactly the base when the exit time precedes the entry time, so
\* each release strictly increases revenue_today.
C20_ChargeAtLeastBase == []C20_AtLeastBase /\ [][C20_ExitRaisesRevenue]_vars

\* C20 witness: the clock was set back: the vehicle in slot 2 has an entry
\* time later than the clock reading and would pay its base price, after
\* the vehicle of slot 1 was released and charged.
C20_Witness ==
    /\ parking_slots[1] = None
    /\ parking_slots[2] # None
    /\ parking_slots[2].entry_time > now
    /\ vehicle_exit_returns(2).outcome = "Ok"
    /\ vehicle_exit_returns(2).duration < 0
    /\ vehicle_exit_returns(2).charges = 100 * pricing[parking_slots[2].type].base
    /\ revenue_today > 0
    /\ BagCardinality(charged) = 1

====
